---- MODULE Spec2Model ----
(***************************************************************************)
(* Model of packages/salesforcedx-vscode-apex-replay-debugger/src/commands *)
(* /quickLaunch.ts: QuickLaunch.debugTest, runSingleTest, retrieveLogFile  *)
(* and TestDebuggerExecutor.run.                                           *)
(*                                                                         *)
(* A JavaScript string is a sequence of one-character strings, so that     *)
(* template literals and path.join are computed character by character.    *)
(* Every call of run/debugTest has its own locals (functions over CallIds) *)
(* and a log `invoked` of the collaborator calls it made, each with its    *)
(* arguments and its outcome.  An action is the code that runs between two *)
(* suspension points (await) of one call.                                  *)
(***************************************************************************)
EXTENDS Integers, Sequences, FiniteSets, TLC

(* ------------------------------ bounds --------------------------------- *)

\* longest test list the remote service returns
MaxTests == 2

(* ------------------------- JavaScript values --------------------------- *)

\* `undefined` and `null`: one-element sequences whose element is not a
\* single character, so they differ from every string.
Undefined == <<"undefined">>
Null == <<"null">>

\* ToBoolean on undefined | null | string
Truthy(v) == v # Undefined /\ v # Null /\ v # <<>>

\* r.f for an optional field f of an object literal
Get(r, f) == IF f \in DOMAIN r THEN r[f] ELSE Undefined

\* await outcomes and call outcomes
Pending == [kind |-> "pending"]
Returned(v) == [kind |-> "return", value |-> v]
Raised(e) == [kind |-> "raise", error |-> e]

(* ----------------------------- path.join ------------------------------- *)

Sep == "/"

\* the segments of s between separators: "a//b" -> <<"a", "", "b">>
RECURSIVE SplitFrom(_, _, _)
SplitFrom(s, done, cur) ==
    IF s = <<>> THEN Append(done, cur)
    ELSE IF Head(s) = Sep THEN SplitFrom(Tail(s), Append(done, cur), <<>>)
    ELSE SplitFrom(Tail(s), done, Append(cur, Head(s)))

SplitSep(s) == SplitFrom(s, <<>>, <<>>)

\* segments joined with the separator
RECURSIVE JoinSep(_)
JoinSep(segs) ==
    IF segs = <<>> THEN <<>>
    ELSE IF Len(segs) = 1 THEN Head(segs)
    ELSE Head(segs) \o <<Sep>> \o JoinSep(Tail(segs))

Dot == <<".">>
DotDot == <<".", ".">>

\* normalizeString: drops empty and "." segments, resolves ".." segments
RECURSIVE NormalizeSegs(_, _, _)
NormalizeSegs(segs, acc, allowAboveRoot) ==
    IF segs = <<>> THEN acc
    ELSE LET s == Head(segs)
             acc2 == IF s = <<>> \/ s = Dot THEN acc
                     ELSE IF s = DotDot
                          THEN IF acc # <<>> /\ acc[Len(acc)] # DotDot
                               THEN SubSeq(acc, 1, Len(acc) - 1)
                               ELSE IF allowAboveRoot THEN Append(acc, s)
                                    ELSE acc
                     ELSE Append(acc, s)
         IN  NormalizeSegs(Tail(segs), acc2, allowAboveRoot)

\* path.posix.normalize
PathNormalize(p) ==
    IF p = <<>> THEN Dot
    ELSE LET isAbsolute == p[1] = Sep
             trailingSeparator == p[Len(p)] = Sep
             \* the segments are split once, then normalized and joined
             body == CHOOSE r \in
                         {JoinSep(NormalizeSegs(segs, <<>>, ~isAbsolute)) :
                              segs \in {SplitSep(p)}} : TRUE
         IN  IF body = <<>>
             THEN IF isAbsolute THEN <<Sep>>
                  ELSE IF trailingSeparator THEN Dot \o <<Sep>> ELSE Dot
             ELSE (IF isAbsolute THEN <<Sep>> ELSE <<>>)
                  \o body
                  \o (IF trailingSeparator THEN <<Sep>> ELSE <<>>)

\* path.posix.join(a, b): the non-empty arguments joined by the separator,
\* then normalized
PathJoin(a, b) ==
    LET joined == IF a = <<>> THEN b
                  ELSE IF b = <<>> THEN a
                  ELSE a \o <<Sep>> \o b
    IN  IF joined = <<>> THEN Dot ELSE PathNormalize(joined)

(* ------------------------------- inputs -------------------------------- *)

ClassNames == {<<"A">>, <<"B">>}
MethodNames == {<<"m">>}

\* the optional second argument of debugTest: a name, the empty string or
\* nothing
TestNameArgs == MethodNames \cup {<<>>, Undefined}

\* ContinueResponse<string[]>, with and without data
Responses ==
    {[type |-> "CONTINUE"]}
    \cup {[type |-> "CONTINUE", data |-> <<cls, m>>] :
              cls \in ClassNames, m \in TestNameArgs}

\* what workspaceContext.getConnection() resolves to
Connections == {"orgA", "orgB"}

\* log identifiers the remote service assigns
LogIds == {<<"0", "7", "L">>, <<"0", "7", "M">>}

\* ApexTestResultData, reduced to the one field the code reads
ApexTestResultDatas ==
    {[apexLogId |-> v] : v \in LogIds \cup {<<>>, Undefined, Null}}

RECURSIVE SeqsUpTo(_, _)
SeqsUpTo(S, n) ==
    IF n = 0 THEN {<<>>}
    ELSE LET shorter == SeqsUpTo(S, n - 1)
         IN  shorter \cup {Append(q, x) : q \in shorter, x \in S}

\* TestResult values runTestSynchronous resolves to
TestResults == {[tests |-> t] : t \in SeqsUpTo(ApexTestResultDatas, MaxTests)}

\* errors a collaborator rejects with: message text, empty text, no message
Timeout == <<"t", "i", "m", "e", "o", "u", "t">>
Errors == {[name |-> "Error", message |-> Timeout],
           [name |-> "Error", message |-> <<>>],
           [name |-> "Error"]}

\* directories getLogDirPath() returns: absolute, nested, relative and one
\* with a trailing separator
LogDirs == {<<"/", "w">>,
            <<"/", "w", "/", "l">>,
            <<"w">>,
            <<"/", "w", "/">>}

(* ------------------------------ messages ------------------------------- *)

NoResultsFound == <<"n", "o", " ", "r", "e", "s", "u", "l", "t", "s">>
NoDebugLog == <<"n", "o", " ", "l", "o", "g">>

\* nls.localize(key): the text registered for the key
nls_localize(key) ==
    CASE key = "debug_test_no_results_found" -> NoResultsFound
      [] key = "debug_test_no_debug_log" -> NoDebugLog
      [] OTHER -> Undefined

(* -------------------------------- state -------------------------------- *)

CallIds == {1, 2}

VARIABLES
    pc,              \* per call: the await it is suspended at
    testClass,       \* debugTest's first argument
    testName,        \* debugTest's second argument
    connection,      \* const connection
    testResult,      \* const testResult: <<>> until assigned, then <<r>>
    outputDir,       \* const outputDir in retrieveLogFile
    logFileRetrive,  \* const logFileRetrive: <<>> until assigned
    invoked,         \* the collaborator calls made, in order
    returned,        \* how debugTest ended
    runReturned,     \* how TestDebuggerExecutor.run ended
    response,        \* run's argument: <<>> until run is called, then <<r>>
    debugTestCalls   \* the argument lists run called debugTest with

vars == <<response, debugTestCalls, pc, testClass, testName, connection, testResult, outputDir,
          logFileRetrive, invoked, returned, runReturned>>

Init ==
    /\ pc = [c \in CallIds |-> "idle"]
    /\ testClass = [c \in CallIds |-> Undefined]
    /\ testName = [c \in CallIds |-> Undefined]
    /\ connection = [c \in CallIds |-> "none"]
    /\ testResult = [c \in CallIds |-> <<>>]
    /\ outputDir = [c \in CallIds |-> Undefined]
    /\ logFileRetrive = [c \in CallIds |-> <<>>]
    /\ invoked = [c \in CallIds |-> <<>>]
    /\ returned = [c \in CallIds |-> Pending]
    /\ runReturned = [c \in CallIds |-> Pending]
    /\ response = [c \in CallIds |-> <<>>]
    /\ debugTestCalls = [c \in CallIds |-> <<>>]

\* a collaborator call: what was called, with what, and how it ended
Call(op, args, out) == [op |-> op, args |-> args, out |-> out]

\* the log after the awaited call at its end has settled with `out`
Settle(log, out) == [log EXCEPT ![Len(log)].out = out]

(* --------------------------- pure functions ---------------------------- *)

\* as testOptions, without the test for a missing method name
testOptions_alwaysMethod(cls, testMethod) ==
    [tests |-> << [className |-> cls, testMethods |-> <<testMethod>>] >>,
     testLevel |-> "RunSpecifiedTests"]

\* the SyncTestConfiguration runSingleTest builds
testOptions(cls, testMethod) ==
    [tests |-> << [className |-> cls,
                   testMethods |-> IF Truthy(testMethod)
                                   THEN <<testMethod>>
                                   ELSE Undefined] >>,
     testLevel |-> "RunSpecifiedTests"]

\* as runSingleTest_try, with no message for an empty test list
runSingleTest_try_silentEmpty(result) ==
    LET tests == result.tests
    IN  IF Len(tests) = 0
        THEN [success |-> FALSE]
        ELSE IF ~Truthy(Get(tests[1], "apexLogId"))
        THEN [success |-> FALSE,
              message |-> nls_localize("debug_test_no_debug_log")]
        ELSE [logFileId |-> tests[1].apexLogId, success |-> TRUE]

\* as runSingleTest_try, taking the first entry that has a log identifier
runSingleTest_try_anyEntry(result) ==
    LET tests == result.tests
        withLog == {i \in DOMAIN tests : Truthy(Get(tests[i], "apexLogId"))}
    IN  IF Len(tests) = 0
        THEN [success |-> FALSE,
              message |-> nls_localize("debug_test_no_results_found")]
        ELSE IF withLog = {}
        THEN [success |-> FALSE,
              message |-> nls_localize("debug_test_no_debug_log")]
        ELSE [logFileId |->
                  tests[CHOOSE i \in withLog : \A j \in withLog : i <= j]
                      .apexLogId,
              success |-> TRUE]

\* as runSingleTest_try, returning the last entry's log identifier
runSingleTest_try_lastEntry(result) ==
    LET tests == result.tests
    IN  IF Len(tests) = 0
        THEN [success |-> FALSE,
              message |-> nls_localize("debug_test_no_results_found")]
        ELSE IF ~Truthy(Get(tests[1], "apexLogId"))
        THEN [success |-> FALSE,
              message |-> nls_localize("debug_test_no_debug_log")]
        ELSE [logFileId |-> tests[Len(tests)].apexLogId, success |-> TRUE]

\* runSingleTest, the try block after runTestSynchronous resolved
runSingleTest_try(result) ==
    LET tests == result.tests
    IN  IF Len(tests) = 0
        THEN [success |-> FALSE,
              message |-> nls_localize("debug_test_no_results_found")]
        ELSE IF ~Truthy(Get(tests[1], "apexLogId"))
        THEN [success |-> FALSE,
              message |-> nls_localize("debug_test_no_debug_log")]
        ELSE [logFileId |-> tests[1].apexLogId, success |-> TRUE]

\* as runSingleTest_catch, dropping the error's message
runSingleTest_catch_noMessage(e) ==
    [success |-> FALSE]

\* runSingleTest, the catch block
runSingleTest_catch(e) ==
    [message |-> Get(e, "message"), success |-> FALSE]

\* as LogFileName, without the extension
LogFileName_noExtension(logId) == logId

\* the template literal `${logId}.log`
LogFileName(logId) == logId \o <<".", "l", "o", "g">>

\* as retrieveLogFile_return, reporting a failure without a path
retrieveLogFile_return_failure(logId, dir) ==
    [success |-> FALSE]

\* retrieveLogFile, after getLogs resolved
retrieveLogFile_return(logId, dir) ==
    [filePath |-> PathJoin(dir, LogFileName(logId)), success |-> TRUE]

(* ------------------------- debugTest's branches ------------------------ *)

\* as abortsOnTraceFlags, ignoring the answer
abortsOnTraceFlags_never(ready) == FALSE

\* as abortsOnTraceFlags, with the negation lost
abortsOnTraceFlags_inverted(ready) == ready

\* if (!(await flags.ensureTraceFlags())) return false
abortsOnTraceFlags(ready) == ~ready

\* if (testResult.success && testResult.logFileId)
hasLogFileId(tr) == tr.success /\ Truthy(Get(tr, "logFileId"))

\* as hasMessage, never reporting
hasMessage_never(tr) == FALSE

\* as hasMessage, reporting whatever the outcome carries
hasMessage_always(tr) == TRUE

\* else if (testResult.message)
hasMessage(tr) == Truthy(Get(tr, "message"))

\* if (logFileRetrive.success && logFileRetrive.filePath)
hasFilePath(r) == r.success /\ Truthy(Get(r, "filePath"))

\* as isStopOnEntry, with launchFromLogFile's default
isStopOnEntry_default == TRUE

\* the second argument of launchFromLogFile
isStopOnEntry == FALSE

(* ------------------------------- actions ------------------------------- *)

\* debugTest and run end together: run returns what debugTest returned and
\* has no handler for what it raises
Finish(c, log, outcome) ==
    /\ invoked' = [invoked EXCEPT ![c] = log]
    /\ returned' = [returned EXCEPT ![c] = outcome]
    /\ runReturned' = [runReturned EXCEPT ![c] = outcome]
    /\ pc' = [pc EXCEPT ![c] = "done"]

\* as run, with the two elements of data taken in the other order
run_swapped(c, resp) ==
    /\ pc[c] = "idle"
    /\ response' = [response EXCEPT ![c] = <<resp>>]
    /\ IF Get(resp, "data") = Undefined
       THEN /\ runReturned' = [runReturned EXCEPT ![c] = Returned(FALSE)]
            /\ pc' = [pc EXCEPT ![c] = "done"]
            /\ UNCHANGED <<debugTestCalls, testClass, testName, invoked>>
       ELSE /\ LET className == resp.data[2]
                   methodName == resp.data[1]
               IN  /\ debugTestCalls' = [debugTestCalls EXCEPT ![c] =
                          Append(@, <<className, methodName>>)]
                   /\ testClass' = [testClass EXCEPT ![c] = className]
                   /\ testName' = [testName EXCEPT ![c] = methodName]
            /\ invoked' = [invoked EXCEPT ![c] =
                   Append(@, Call("getConnection", <<>>, Pending))]
            /\ pc' = [pc EXCEPT ![c] = "getConnection"]
            /\ UNCHANGED runReturned
    /\ UNCHANGED <<connection, testResult, outputDir, logFileRetrive,
                   returned>>

\* TestDebuggerExecutor.run up to the first await of debugTest
run(c, resp) ==
    /\ pc[c] = "idle"
    /\ response' = [response EXCEPT ![c] = <<resp>>]
    /\ IF Get(resp, "data") = Undefined
       THEN /\ runReturned' = [runReturned EXCEPT ![c] = Returned(FALSE)]
            /\ pc' = [pc EXCEPT ![c] = "done"]
            /\ UNCHANGED <<debugTestCalls, testClass, testName, invoked>>
       ELSE /\ LET className == resp.data[1]
                   methodName == resp.data[2]
               IN  /\ debugTestCalls' = [debugTestCalls EXCEPT ![c] =
                          Append(@, <<className, methodName>>)]
                   /\ testClass' = [testClass EXCEPT ![c] = className]
                   /\ testName' = [testName EXCEPT ![c] = methodName]
            /\ invoked' = [invoked EXCEPT ![c] =
                   Append(@, Call("getConnection", <<>>, Pending))]
            /\ pc' = [pc EXCEPT ![c] = "getConnection"]
            /\ UNCHANGED runReturned
    /\ UNCHANGED <<connection, testResult, outputDir, logFileRetrive,
                   returned>>

\* getConnection resolved: new TraceFlags(connection), ensureTraceFlags()
getConnection_resolved(c, conn) ==
    /\ pc[c] = "getConnection"
    /\ connection' = [connection EXCEPT ![c] = conn]
    /\ invoked' = [invoked EXCEPT ![c] =
           Append(Settle(@, Returned(conn)),
                  Call("ensureTraceFlags", <<conn>>, Pending))]
    /\ pc' = [pc EXCEPT ![c] = "ensureTraceFlags"]
    /\ UNCHANGED <<response, debugTestCalls, testClass, testName,
                   testResult, outputDir,
                   logFileRetrive, returned, runReturned>>

\* as getConnection_rejected, with the rejection turned into `false`
getConnection_rejected_caught(c, e) ==
    /\ pc[c] = "getConnection"
    /\ Finish(c, Settle(invoked[c], Raised(e)), Returned(FALSE))
    /\ UNCHANGED <<response, debugTestCalls, testClass, testName,
                   connection, testResult, outputDir,
                   logFileRetrive>>

\* getConnection rejected: nothing in debugTest or run catches it
getConnection_rejected(c, e) ==
    /\ pc[c] = "getConnection"
    /\ Finish(c, Settle(invoked[c], Raised(e)), Raised(e))
    /\ UNCHANGED <<response, debugTestCalls, testClass, testName,
                   connection, testResult, outputDir,
                   logFileRetrive>>

\* ensureTraceFlags resolved: return false, or runSingleTest up to its await
ensureTraceFlags_resolved(c, ready) ==
    /\ pc[c] = "ensureTraceFlags"
    /\ LET log == Settle(invoked[c], Returned(ready))
       IN  IF abortsOnTraceFlags(ready)
           THEN Finish(c, log, Returned(FALSE))
           ELSE /\ invoked' = [invoked EXCEPT ![c] =
                       Append(log, Call("runTestSynchronous",
                                        <<connection[c],
                                          testOptions(testClass[c],
                                                      testName[c])>>,
                                        Pending))]
                /\ pc' = [pc EXCEPT ![c] = "runTestSynchronous"]
                /\ UNCHANGED <<returned, runReturned>>
    /\ UNCHANGED <<response, debugTestCalls, testClass, testName,
                   connection, testResult, outputDir,
                   logFileRetrive>>

\* debugTest from the assignment of testResult to the next await or return;
\* dir is what getLogDirPath() returns if retrieveLogFile is entered
debugTest_afterRunSingleTest(c, log, tr, dir) ==
    /\ testResult' = [testResult EXCEPT ![c] = <<tr>>]
    /\ IF hasLogFileId(tr)
       THEN /\ outputDir' = [outputDir EXCEPT ![c] = dir]
            /\ invoked' = [invoked EXCEPT ![c] =
                   Append(log, Call("getLogs",
                                    <<connection[c],
                                      [logId |-> tr.logFileId,
                                       outputDir |-> dir]>>,
                                    Pending))]
            /\ pc' = [pc EXCEPT ![c] = "getLogs"]
            /\ UNCHANGED <<returned, runReturned>>
       ELSE /\ IF hasMessage(tr)
               THEN Finish(c, Append(log, Call("showErrorMessage",
                                               <<tr.message>>,
                                               Returned(Undefined))),
                           Returned(FALSE))
               ELSE Finish(c, log, Returned(FALSE))
            /\ UNCHANGED outputDir

\* runTestSynchronous resolved
runTestSynchronous_resolved(c, result, dir) ==
    /\ pc[c] = "runTestSynchronous"
    /\ debugTest_afterRunSingleTest(c, Settle(invoked[c], Returned(result)),
                                    runSingleTest_try(result), dir)
    /\ UNCHANGED <<response, debugTestCalls, testClass, testName,
                   connection, logFileRetrive>>

\* runTestSynchronous rejected
runTestSynchronous_rejected(c, e, dir) ==
    /\ pc[c] = "runTestSynchronous"
    /\ debugTest_afterRunSingleTest(c, Settle(invoked[c], Raised(e)),
                                    runSingleTest_catch(e), dir)
    /\ UNCHANGED <<response, debugTestCalls, testClass, testName,
                   connection, logFileRetrive>>

\* as getLogs_resolved, with the test outcome kept in a field that the
\* commands share: the last command's outcome is the one read
getLogs_resolved_shared(c) ==
    /\ pc[c] = "getLogs"
    /\ LET others == {d \in CallIds \ {c} :
                          Len(testResult[d]) = 1 /\ testResult[d][1].success}
           from == IF others = {} THEN c ELSE CHOOSE d \in others : TRUE
           r == retrieveLogFile_return(testResult[from][1].logFileId,
                                       outputDir[c])
           log == Settle(invoked[c], Returned(Undefined))
       IN  /\ logFileRetrive' = [logFileRetrive EXCEPT ![c] = <<r>>]
           /\ IF hasFilePath(r)
              THEN Finish(c, Append(log, Call("launchFromLogFile",
                                              <<r.filePath, isStopOnEntry>>,
                                              Returned(Undefined))),
                          Returned(TRUE))
              ELSE Finish(c, log, Returned(FALSE))
    /\ UNCHANGED <<response, debugTestCalls, testClass, testName,
                   connection, testResult, outputDir>>

\* as getLogs_resolved, without the `return true` after the launch
getLogs_resolved_fallsThrough(c) ==
    /\ pc[c] = "getLogs"
    /\ LET r == retrieveLogFile_return(testResult[c][1].logFileId,
                                       outputDir[c])
           log == Settle(invoked[c], Returned(Undefined))
       IN  /\ logFileRetrive' = [logFileRetrive EXCEPT ![c] = <<r>>]
           /\ IF hasFilePath(r)
              THEN Finish(c, Append(log, Call("launchFromLogFile",
                                              <<r.filePath, isStopOnEntry>>,
                                              Returned(Undefined))),
                          Returned(FALSE))
              ELSE Finish(c, log, Returned(FALSE))
    /\ UNCHANGED <<response, debugTestCalls, testClass, testName,
                   connection, testResult, outputDir>>

\* getLogs resolved: retrieveLogFile returns, debugTest launches the replay
getLogs_resolved(c) ==
    /\ pc[c] = "getLogs"
    /\ LET r == retrieveLogFile_return(testResult[c][1].logFileId,
                                       outputDir[c])
           log == Settle(invoked[c], Returned(Undefined))
       IN  /\ logFileRetrive' = [logFileRetrive EXCEPT ![c] = <<r>>]
           /\ IF hasFilePath(r)
              THEN Finish(c, Append(log, Call("launchFromLogFile",
                                              <<r.filePath, isStopOnEntry>>,
                                              Returned(Undefined))),
                          Returned(TRUE))
              ELSE Finish(c, log, Returned(FALSE))
    /\ UNCHANGED <<response, debugTestCalls, testClass, testName,
                   connection, testResult, outputDir>>

\* as getLogs_rejected, with the rejection turned into a silent `false`
getLogs_rejected_caught(c, e) ==
    /\ pc[c] = "getLogs"
    /\ Finish(c, Settle(invoked[c], Raised(e)), Returned(FALSE))
    /\ UNCHANGED <<response, debugTestCalls, testClass, testName,
                   connection, testResult, outputDir,
                   logFileRetrive>>

\* as getLogs_rejected, with the download tried again after a failure
getLogs_rejected_retry(c, e) ==
    /\ pc[c] = "getLogs"
    /\ invoked' = [invoked EXCEPT ![c] = Settle(@, Raised(e))]
    /\ UNCHANGED <<response, debugTestCalls, pc, testClass, testName,
                   connection, testResult, outputDir, logFileRetrive,
                   returned, runReturned>>

\* getLogs rejected: neither retrieveLogFile nor debugTest nor run catches
getLogs_rejected(c, e) ==
    /\ pc[c] = "getLogs"
    /\ Finish(c, Settle(invoked[c], Raised(e)), Raised(e))
    /\ UNCHANGED <<response, debugTestCalls, testClass, testName,
                   connection, testResult, outputDir,
                   logFileRetrive>>

(* ---------------------------- specification ---------------------------- *)

\* one command: call 1 runs alone
Next ==
    \/ \E resp \in Responses : run(1, resp)
    \/ \E conn \in Connections : getConnection_resolved(1, conn)
    \/ \E e \in Errors : getConnection_rejected(1, e)
    \/ \E ready \in BOOLEAN : ensureTraceFlags_resolved(1, ready)
    \/ \E result \in TestResults, dir \in LogDirs :
           runTestSynchronous_resolved(1, result, dir)
    \/ \E e \in Errors, dir \in LogDirs :
           runTestSynchronous_rejected(1, e, dir)
    \/ getLogs_resolved(1)
    \/ \E e \in Errors : getLogs_rejected(1, e)

Spec == Init /\ [][Next]_vars

(* ------------------------- concurrent commands ------------------------- *)

\* inputs of the concurrent commands: one of each kind
FewResponses == {[type |-> "CONTINUE"],
                 [type |-> "CONTINUE", data |-> << <<"A">>, <<"m">> >>]}
FewConnections == {"orgA"}
FewTestResults == {[tests |-> <<>>],
                   [tests |-> << [apexLogId |-> Undefined] >>],
                   [tests |-> << [apexLogId |-> <<"0", "7", "L">>] >>],
                   [tests |-> << [apexLogId |-> <<"0", "7", "M">>] >>]}
FewErrors == {[name |-> "Error", message |-> Timeout], [name |-> "Error"]}
FewLogDirs == {<<"/", "w">>, <<"/", "w", "/", "l">>}

\* a pending collaborator call of call c settles: it resolves or rejects
CollaboratorSettles(c) ==
    \/ \E conn \in FewConnections : getConnection_resolved(c, conn)
    \/ \E e \in FewErrors : getConnection_rejected(c, e)
    \/ \E ready \in BOOLEAN : ensureTraceFlags_resolved(c, ready)
    \/ \E result \in FewTestResults, dir \in FewLogDirs :
           runTestSynchronous_resolved(c, result, dir)
    \/ \E e \in FewErrors, dir \in FewLogDirs :
           runTestSynchronous_rejected(c, e, dir)
    \/ getLogs_resolved(c)
    \/ \E e \in FewErrors : getLogs_rejected(c, e)

\* the commands of CallIds, started at any time and interleaved at their
\* suspension points in any order
ConcNext ==
    \E c \in CallIds :
        \/ \E resp \in FewResponses : run(c, resp)
        \/ CollaboratorSettles(c)

ConcSpec == Init /\ [][ConcNext]_vars

\* the same, where every pending collaborator call eventually settles
LiveSpec == ConcSpec /\ \A c \in CallIds : WF_vars(CollaboratorSettles(c))

(* ------------------------- reading the call log ------------------------ *)

\* the calls of one collaborator made by call c, in order
CallsOf(c, op) == SelectSeq(invoked[c], LAMBDA r : r.op = op)

Count(c, op) == Len(CallsOf(c, op))

\* collaborator op was called by c and settled with outcome out
Settled(c, op, out) == \E i \in DOMAIN invoked[c] :
    invoked[c][i].op = op /\ invoked[c][i].out = out

\* what the one call of op by c resolved to / was rejected with
ResolvedWith(c, op) == CallsOf(c, op)[1].out.value
HasResolved(c, op) == Count(c, op) > 0 /\ CallsOf(c, op)[1].out.kind = "return"
HasRejected(c, op) == Count(c, op) > 0 /\ CallsOf(c, op)[1].out.kind = "raise"
RejectedWith(c, op) == CallsOf(c, op)[1].out.error

\* the test list runTestSynchronous resolved to starts with an entry that
\* carries a log identifier
FirstHasLogId(c) ==
    /\ HasResolved(c, "runTestSynchronous")
    /\ Len(ResolvedWith(c, "runTestSynchronous").tests) > 0
    /\ Truthy(Get(ResolvedWith(c, "runTestSynchronous").tests[1],
                  "apexLogId"))

FirstLogId(c) == ResolvedWith(c, "runTestSynchronous").tests[1].apexLogId

\* the text D/L.log
Literal(dir, logId) == dir \o <<"/">> \o logId \o <<".", "l", "o", "g">>

\* D is written in normal form, without a trailing separator
IsPlainDir(dir) == dir = PathNormalize(dir) /\ dir[Len(dir)] # "/"

\* p is the path D/L.log: the same file, and the same text when D is plain
IsLogPath(p, dir, logId) ==
    /\ PathNormalize(p) = PathNormalize(Literal(dir, logId))
    /\ IsPlainDir(dir) => p = Literal(dir, logId)

(* ------------------------------- claims -------------------------------- *)

\* C1: whenever ensureTraceFlags returns false, debugTest returns false and
\* in that call runTestSynchronous, getLogs, launchFromLogFile and
\* showErrorMessage are never invoked.
C1_NotReadyAbortsSilently == \A c \in CallIds :
    Settled(c, "ensureTraceFlags", Returned(FALSE)) =>
        /\ returned[c] = Returned(FALSE)
        /\ Count(c, "runTestSynchronous") = 0
        /\ Count(c, "getLogs") = 0
        /\ Count(c, "launchFromLogFile") = 0
        /\ Count(c, "showErrorMessage") = 0

C1_Witness == \E c \in CallIds :
    /\ Settled(c, "ensureTraceFlags", Returned(FALSE))
    /\ returned[c] = Returned(FALSE)

\* C2: if ensureTraceFlags returned true, the test list's first entry has
\* log identifier L and getLogs (called with output directory D) did not
\* raise, then debugTest returns true, launchFromLogFile is invoked exactly
\* once, with the path D/L.log and isStopOnEntry = false, and
\* showErrorMessage is not invoked.
C2_SuccessLaunchesOnce == \A c \in CallIds :
    ( /\ Settled(c, "ensureTraceFlags", Returned(TRUE))
      /\ FirstHasLogId(c)
      /\ HasResolved(c, "getLogs") ) =>
        /\ returned[c] = Returned(TRUE)
        /\ Count(c, "launchFromLogFile") = 1
        /\ IsLogPath(CallsOf(c, "launchFromLogFile")[1].args[1],
                     CallsOf(c, "getLogs")[1].args[2].outputDir,
                     FirstLogId(c))
        /\ CallsOf(c, "launchFromLogFile")[1].args[2] = FALSE
        /\ Count(c, "showErrorMessage") = 0

C2_Witness == \E c \in CallIds :
    /\ returned[c] = Returned(TRUE)
    /\ FirstHasLogId(c)
    /\ HasResolved(c, "getLogs")
    /\ outputDir[c] = <<"/", "w", "/", "l">>
    /\ CallsOf(c, "launchFromLogFile")[1].args[1]
           = <<"/", "w", "/", "l", "/", "0", "7", "L", ".", "l", "o", "g">>

\* C3: if ensureTraceFlags returned true and runTestSynchronous returns zero
\* test entries, debugTest returns false, showErrorMessage is called exactly
\* once, with the "no results found" message, and neither getLogs nor
\* launchFromLogFile is invoked.
C3_EmptyResultReported == \A c \in CallIds :
    ( /\ Settled(c, "ensureTraceFlags", Returned(TRUE))
      /\ HasResolved(c, "runTestSynchronous")
      /\ Len(ResolvedWith(c, "runTestSynchronous").tests) = 0 ) =>
        /\ returned[c] = Returned(FALSE)
        /\ Count(c, "showErrorMessage") = 1
        /\ CallsOf(c, "showErrorMessage")[1].args = <<NoResultsFound>>
        /\ Count(c, "getLogs") = 0
        /\ Count(c, "launchFromLogFile") = 0

C3_Witness == \E c \in CallIds :
    /\ HasResolved(c, "runTestSynchronous")
    /\ ResolvedWith(c, "runTestSynchronous").tests = <<>>
    /\ returned[c] = Returned(FALSE)

\* C4: if the test list is not empty and its first entry has no log
\* identifier, runSingleTest yields a failure with the "no debug log"
\* message, even when a later entry carries a log identifier; debugTest
\* reports that message, returns false and invokes neither getLogs nor
\* launchFromLogFile.
C4_FirstEntryDecides == \A c \in CallIds :
    ( /\ HasResolved(c, "runTestSynchronous")
      /\ Len(ResolvedWith(c, "runTestSynchronous").tests) > 0
      /\ ~FirstHasLogId(c) ) =>
        /\ testResult[c] = << [success |-> FALSE, message |-> NoDebugLog] >>
        /\ CallsOf(c, "showErrorMessage")
               = << Call("showErrorMessage", <<NoDebugLog>>,
                         Returned(Undefined)) >>
        /\ returned[c] = Returned(FALSE)
        /\ Count(c, "getLogs") = 0
        /\ Count(c, "launchFromLogFile") = 0

\* the first entry has no log identifier and the second one has
C4_Witness == \E c \in CallIds :
    /\ HasResolved(c, "runTestSynchronous")
    /\ Len(ResolvedWith(c, "runTestSynchronous").tests) = 2
    /\ ~FirstHasLogId(c)
    /\ Truthy(ResolvedWith(c, "runTestSynchronous").tests[2].apexLogId)
    /\ returned[c] = Returned(FALSE)

\* C5: if runTestSynchronous raises an error, runSingleTest yields a failure
\* outcome carrying that error's message, debugTest returns false and does
\* not raise, and neither getLogs nor launchFromLogFile is invoked.
C5_InvocationErrorCaught == \A c \in CallIds :
    HasRejected(c, "runTestSynchronous") =>
        /\ Len(testResult[c]) = 1
        /\ testResult[c][1].success = FALSE
        /\ Get(testResult[c][1], "message")
               = Get(RejectedWith(c, "runTestSynchronous"), "message")
        /\ Get(testResult[c][1], "logFileId") = Undefined
        /\ returned[c] = Returned(FALSE)
        /\ runReturned[c] = Returned(FALSE)
        /\ Count(c, "getLogs") = 0
        /\ Count(c, "launchFromLogFile") = 0

C5_Witness == \E c \in CallIds :
    /\ HasRejected(c, "runTestSynchronous")
    /\ Get(RejectedWith(c, "runTestSynchronous"), "message") = Timeout
    /\ returned[c] = Returned(FALSE)

\* C6, as claimed: whenever runTestSynchronous raises an error, with any
\* message text, also an empty or a missing one, showErrorMessage is called
\* exactly once in that call, carrying the error's message text.
C6_EveryInvocationErrorReported == \A c \in CallIds :
    HasRejected(c, "runTestSynchronous") =>
        /\ Count(c, "showErrorMessage") = 1
        /\ CallsOf(c, "showErrorMessage")[1].args
               = <<Get(RejectedWith(c, "runTestSynchronous"), "message")>>

\* C6, amended: whenever runTestSynchronous raises an error whose message
\* text is present and not empty, showErrorMessage is called exactly once
\* in that call, carrying that text; when the message is empty or missing
\* showErrorMessage is not called.
C6_InvocationErrorReportedIfMessage == \A c \in CallIds :
    HasRejected(c, "runTestSynchronous") =>
        LET m == Get(RejectedWith(c, "runTestSynchronous"), "message")
        IN  IF m \notin {Undefined, Null, <<>>}
            THEN /\ Count(c, "showErrorMessage") = 1
                 /\ CallsOf(c, "showErrorMessage")[1].args = <<m>>
            ELSE Count(c, "showErrorMessage") = 0

C6_Witness == \E c \in CallIds :
    /\ HasRejected(c, "runTestSynchronous")
    /\ Count(c, "showErrorMessage") = 1
    /\ CallsOf(c, "showErrorMessage")[1].args = <<Timeout>>

\* no later stage than getConnection was entered
NoLaterStage(c) ==
    /\ Count(c, "ensureTraceFlags") = 0
    /\ Count(c, "runTestSynchronous") = 0
    /\ Count(c, "getLogs") = 0
    /\ Count(c, "launchFromLogFile") = 0

C8_TestRunResultShape == \A c \in CallIds :
    Len(testResult[c]) = 1 =>
        LET tr == testResult[c][1]
        IN  IF tr.success
            THEN /\ "logFileId" \in DOMAIN tr
                 /\ tr.logFileId \notin {Undefined, Null, <<>>}
                 /\ FirstHasLogId(c)
                 /\ tr.logFileId = FirstLogId(c)
                 /\ "message" \notin DOMAIN tr
            ELSE "logFileId" \notin DOMAIN tr

\* a success whose test list goes on with an entry of another kind
C8_Witness == \E c \in CallIds :
    /\ Len(testResult[c]) = 1
    /\ testResult[c][1].success
    /\ Len(ResolvedWith(c, "runTestSynchronous").tests) = 2
    /\ ResolvedWith(c, "runTestSynchronous").tests[2].apexLogId
           # testResult[c][1].logFileId

\* C9: in any debugTest call showErrorMessage is invoked at most once, and
\* only when ensureTraceFlags returned true and runSingleTest yielded a
\* failure with a message that is present and not empty (which is then the
\* text shown): never when the test run succeeded, so never when getLogs was
\* called, whether it returned or raised.
C9_NotificationOnlyOnTestFailure == \A c \in CallIds :
    /\ Count(c, "showErrorMessage") <= 1
    /\ Count(c, "showErrorMessage") = 1 =>
        /\ Settled(c, "ensureTraceFlags", Returned(TRUE))
        /\ Len(testResult[c]) = 1
        /\ ~testResult[c][1].success
        /\ Get(testResult[c][1], "message") \notin {Undefined, Null, <<>>}
        /\ CallsOf(c, "showErrorMessage")[1].args
               = <<testResult[c][1].message>>
        /\ Count(c, "getLogs") = 0
        /\ Count(c, "launchFromLogFile") = 0
        /\ returned[c] = Returned(FALSE)

C9_Witness == \E c \in CallIds :
    /\ Count(c, "showErrorMessage") = 1
    /\ returned[c] = Returned(FALSE)

\* C10: the request runSingleTest sends carries exactly one test item, for
\* the given class, with testLevel 'RunSpecifiedTests'; when a method name
\* is supplied the item's testMethods is that one method, and when none is
\* supplied (absent or the empty string) the item has no testMethods.
C10_RequestShape == \A c \in CallIds :
    /\ Count(c, "runTestSynchronous") <= 1
    /\ Count(c, "runTestSynchronous") = 1 =>
        LET req == CallsOf(c, "runTestSynchronous")[1].args[2]
        IN  /\ Len(req.tests) = 1
            /\ req.tests[1].className = testClass[c]
            /\ req.testLevel = "RunSpecifiedTests"
            /\ testName[c] \in MethodNames =>
                   req.tests[1].testMethods = <<testName[c]>>
            /\ testName[c] \notin MethodNames =>
                   req.tests[1].testMethods = Undefined

\* a request for one method
C10_Witness == \E c \in CallIds :
    /\ Count(c, "runTestSynchronous") = 1
    /\ testName[c] = <<"m">>
    /\ CallsOf(c, "runTestSynchronous")[1].args[2].tests[1].testMethods
           = << <<"m">> >>

\* C11: for the log reference L of the test outcome and the directory D
\* that getLogDirPath() returned, retrieveLogFile calls getLogs with
\* {logId: L, outputDir: D}; whenever that call does not raise it returns
\* success = true with filePath = D/L.log; it never returns a failure.
C11_RetrieveLogFileResult == \A c \in CallIds :
    /\ Count(c, "getLogs") <= 1
    /\ Count(c, "getLogs") = 1 =>
        /\ Len(testResult[c]) = 1
        /\ CallsOf(c, "getLogs")[1].args[2]
               = [logId |-> testResult[c][1].logFileId,
                  outputDir |-> outputDir[c]]
        /\ outputDir[c] \in LogDirs
    /\ HasResolved(c, "getLogs") =>
        /\ Len(logFileRetrive[c]) = 1
        /\ logFileRetrive[c][1].success = TRUE
        /\ IsLogPath(logFileRetrive[c][1].filePath, outputDir[c],
                     testResult[c][1].logFileId)
    /\ Len(logFileRetrive[c]) = 1 =>
        /\ logFileRetrive[c][1].success = TRUE
        /\ HasResolved(c, "getLogs")

\* a log fetched into a directory given with a trailing separator
C11_Witness == \E c \in CallIds :
    /\ HasResolved(c, "getLogs")
    /\ outputDir[c] = <<"/", "w", "/">>
    /\ logFileRetrive[c]
           = << [filePath |-> <<"/", "w", "/", "0", "7", "M",
                               ".", "l", "o", "g">>,
                 success |-> TRUE] >>

\* C12: if getLogs raises, neither retrieveLogFile nor debugTest catches the
\* error: debugTest ends by raising it to its caller, returning neither true
\* nor false, and neither launchFromLogFile nor showErrorMessage is invoked.
C12_DownloadErrorPropagates == \A c \in CallIds :
    HasRejected(c, "getLogs") =>
        /\ returned[c] = Raised(RejectedWith(c, "getLogs"))
        /\ logFileRetrive[c] = <<>>
        /\ Count(c, "launchFromLogFile") = 0
        /\ Count(c, "showErrorMessage") = 0

C12_Witness == \E c \in CallIds :
    /\ HasRejected(c, "getLogs")
    /\ returned[c].kind = "raise"
    /\ testResult[c][1].success

\* the order of the stages of debugTest
StageOrder == <<"getConnection", "ensureTraceFlags", "runTestSynchronous",
                "getLogs", "launchFromLogFile">>

\* the stage calls call c made, in order
Stages(c) == SelectSeq(invoked[c],
                       LAMBDA r : \E i \in DOMAIN StageOrder :
                                      r.op = StageOrder[i])

\* C13: in every debugTest call the collaborator calls occur in the order
\* getConnection, ensureTraceFlags, runTestSynchronous, getLogs,
\* launchFromLogFile, each at most once, and each begins only after the one
\* before it has completed: runTestSynchronous only after ensureTraceFlags
\* returned true, getLogs only after the test run yielded a successful
\* outcome, launchFromLogFile only after getLogs has completed.
C13_StagesInOrder == \A c \in CallIds :
    /\ Len(Stages(c)) <= Len(StageOrder)
    /\ \A i \in DOMAIN Stages(c) : Stages(c)[i].op = StageOrder[i]
    /\ \A i \in DOMAIN invoked[c] :
           i < Len(invoked[c]) => invoked[c][i].out # Pending
    /\ \A i \in DOMAIN Stages(c) :
           i < Len(Stages(c)) => Stages(c)[i].out.kind = "return"
    /\ Count(c, "runTestSynchronous") > 0 =>
           Settled(c, "ensureTraceFlags", Returned(TRUE))
    /\ Count(c, "getLogs") > 0 =>
           /\ HasResolved(c, "runTestSynchronous")
           /\ Len(testResult[c]) = 1
           /\ testResult[c][1].success
    /\ Count(c, "launchFromLogFile") > 0 => HasResolved(c, "getLogs")

\* all five stages were gone through
C13_Witness == \E c \in CallIds :
    /\ Len(Stages(c)) = 5
    /\ Stages(c)[5].op = "launchFromLogFile"
    /\ returned[c] = Returned(TRUE)

\* C16: debugTest returns true if and only if launchFromLogFile was invoked
\* exactly once during that call; and in no debugTest call are both
\* launchFromLogFile and showErrorMessage invoked.
C16_TrueIffLaunched == \A c \in CallIds :
    /\ (returned[c] = Returned(TRUE)) <=> (Count(c, "launchFromLogFile") = 1)
    /\ returned[c] # Pending /\ returned[c] # Returned(TRUE) =>
           Count(c, "launchFromLogFile") = 0
    /\ ~(Count(c, "launchFromLogFile") > 0 /\ Count(c, "showErrorMessage") > 0)

C16_Witness == \E c \in CallIds :
    /\ returned[c] = Returned(TRUE)
    /\ Count(c, "launchFromLogFile") = 1
    /\ Count(c, "showErrorMessage") = 0

\* C17: the silent `return false` after the log retrieval is never taken:
\* whenever the test run outcome is a success and getLogs returns without
\* raising, the retrieval outcome has success = true and a non-empty
\* filePath, and debugTest does not return false.
C17_NoSilentFailureAfterRetrieval == \A c \in CallIds :
    HasResolved(c, "getLogs") =>
        /\ testResult[c][1].success
        /\ logFileRetrive[c][1].success
        /\ "filePath" \in DOMAIN logFileRetrive[c][1]
        /\ logFileRetrive[c][1].filePath \notin {Undefined, Null, <<>>}
        /\ returned[c] # Returned(FALSE)
        /\ returned[c] # Pending

C17_Witness == \E c \in CallIds :
    /\ HasResolved(c, "getLogs")
    /\ Len(logFileRetrive[c]) = 1
    /\ outputDir[c] = <<"w">>
    /\ returned[c] = Returned(TRUE)

\* C18: TestDebuggerExecutor.run returns false without acquiring a
\* connection or invoking any stage when the response carries no data;
\* otherwise it invokes debugTest exactly once, with class name = data[0]
\* and method name = data[1], and ends exactly as debugTest ended: it returns
\* the boolean debugTest returned.
C18_RunDelegatesToDebugTest == \A c \in CallIds :
    Len(response[c]) = 1 =>
        IF "data" \notin DOMAIN response[c][1]
        THEN /\ runReturned[c] = Returned(FALSE)
             /\ invoked[c] = <<>>
             /\ debugTestCalls[c] = <<>>
             /\ returned[c] = Pending
        ELSE /\ debugTestCalls[c]
                    = << <<response[c][1].data[1], response[c][1].data[2]>> >>
             /\ testClass[c] = response[c][1].data[1]
             /\ testName[c] = response[c][1].data[2]
             /\ runReturned[c] = returned[c]
             /\ pc[c] = "done" => returned[c] # Pending

\* run returned the true that debugTest returned for class B, method m
C18_Witness == \E c \in CallIds :
    /\ Len(response[c]) = 1
    /\ Get(response[c][1], "data") = << <<"B">>, <<"m">> >>
    /\ debugTestCalls[c] = << << <<"B">>, <<"m">> >> >>
    /\ returned[c] = Returned(TRUE)
    /\ runReturned[c] = Returned(TRUE)

\* how far a call has come
StageRank(p) ==
    CASE p = "idle" -> 0
      [] p = "getConnection" -> 1
      [] p = "ensureTraceFlags" -> 2
      [] p = "runTestSynchronous" -> 3
      [] p = "getLogs" -> 4
      [] p = "done" -> 5

\* C15: provided every collaborator call eventually returns or raises,
\* every debugTest call that was invoked eventually ends (it returned true,
\* returned false or raised), and no step takes a call back to an earlier
\* stage, or leaves it at the stage it was at.
C15_RunsToTerminalState ==
    /\ \A c \in CallIds :
           (debugTestCalls[c] # <<>>) ~>
               (pc[c] = "done" /\ returned[c].kind \in {"return", "raise"})
    /\ [][\A c \in CallIds :
              pc'[c] # pc[c] \/ invoked'[c] # invoked[c] =>
                  StageRank(pc'[c]) > StageRank(pc[c])]_vars

\* a call that ended at its fourth stage
C15_Witness == \E c \in CallIds :
    /\ pc[c] = "done"
    /\ Len(Stages(c)) = 4
    /\ returned[c].kind = "raise"

\* what call c's own collaborators answered decides how debugTest ends
OwnReturn(c) ==
    IF HasRejected(c, "getConnection")
    THEN Raised(RejectedWith(c, "getConnection"))
    ELSE IF Settled(c, "ensureTraceFlags", Returned(FALSE))
    THEN Returned(FALSE)
    ELSE IF ~FirstHasLogId(c) THEN Returned(FALSE)
    ELSE IF HasRejected(c, "getLogs")
    THEN Raised(RejectedWith(c, "getLogs"))
    ELSE Returned(TRUE)

\* ... which messages it shows
OwnMessages(c) ==
    IF HasRejected(c, "runTestSynchronous")
    THEN LET m == Get(RejectedWith(c, "runTestSynchronous"), "message")
         IN  IF m \in {Undefined, Null, <<>>} THEN <<>> ELSE << <<m>> >>
    ELSE IF HasResolved(c, "runTestSynchronous") /\ ~FirstHasLogId(c)
    THEN IF ResolvedWith(c, "runTestSynchronous").tests = <<>>
         THEN << <<NoResultsFound>> >>
         ELSE << <<NoDebugLog>> >>
    ELSE <<>>

\* ... and which log files it launches the replay with
OwnLaunches(c) ==
    IF FirstHasLogId(c) /\ HasResolved(c, "getLogs")
    THEN << <<PathNormalize(Literal(CallsOf(c, "getLogs")[1].args[2].outputDir,
                                    FirstLogId(c))),
              FALSE>> >>
    ELSE <<>>

ArgsOf(c, op) == [i \in DOMAIN CallsOf(c, op) |-> CallsOf(c, op)[i].args]

\* the locals and the results of call c
LocalsOf(c) == <<pc[c], response[c], debugTestCalls[c], testClass[c],
                 testName[c], connection[c], testResult[c], outputDir[c],
                 logFileRetrive[c], invoked[c], returned[c], runReturned[c]>>

LocalsOfNext(c) == <<pc'[c], response'[c], debugTestCalls'[c], testClass'[c],
                     testName'[c], connection'[c], testResult'[c],
                     outputDir'[c], logFileRetrive'[c], invoked'[c],
                     returned'[c], runReturned'[c]>>

\* C14: when debugTest calls run concurrently, interleaved at their
\* suspension points in any order, they are independent: a step of one call
\* changes nothing of another call, and the return value, the message shown
\* and the log path launched by a call that has ended are those that its
\* own collaborators' answers decide; it never launches the replay with
\* another call's log identifier nor shows another call's message.
C14_CallsIndependent ==
    /\ [](\A c \in CallIds :
              (pc[c] = "done" /\ debugTestCalls[c] # <<>>) =>
                  /\ returned[c] = OwnReturn(c)
                  /\ ArgsOf(c, "showErrorMessage") = OwnMessages(c)
                  /\ ArgsOf(c, "launchFromLogFile") = OwnLaunches(c)
                  /\ \A d \in CallIds \ {c} :
                         ( /\ Count(c, "launchFromLogFile") > 0
                           /\ FirstHasLogId(d)
                           /\ FirstLogId(d) # FirstLogId(c) ) =>
                             \A dir \in FewLogDirs :
                                 CallsOf(c, "launchFromLogFile")[1].args[1]
                                     # PathNormalize(Literal(dir,
                                                             FirstLogId(d))))
    /\ [][\A c \in CallIds :
              LocalsOfNext(c) # LocalsOf(c) =>
                  \A d \in CallIds \ {c} : LocalsOfNext(d) = LocalsOf(d)]_vars

\* one call has launched the replay with its log while another call, whose
\* test run yielded another log, is waiting for its download
C14_Witness == \E c \in CallIds : \E d \in CallIds \ {c} :
    /\ returned[c] = Returned(TRUE)
    /\ FirstLogId(c) = <<"0", "7", "M">>
    /\ ArgsOf(c, "launchFromLogFile")
           = << << <<"/", "w", "/", "0", "7", "M", ".", "l", "o", "g">>,
                   FALSE >> >>
    /\ pc[d] = "getLogs"
    /\ FirstLogId(d) = <<"0", "7", "L">>

====
